---- MODULE Spec2Model ----
(***************************************************************************)
(* Model of igtts.py: a command-line tool that resolves a text (argument   *)
(* or input file), sends one synthesis request to the Gemini TTS model and *)
(* writes the returned PCM samples into a WAV file.                        *)
(*                                                                         *)
(* One invocation of main() is one behaviour.  Strings are sequences of    *)
(* one-character strings, bytes objects are sequences of small integers,   *)
(* Python's None is the record None and a present value v is Some(v).      *)
(***************************************************************************)
EXTENDS Integers, Sequences, FiniteSets, TLC

VARIABLES
    argv,        \* the command line: optional text, optional -v, the -l flag
    args,        \* the namespace parse_args returns
    inputFile,   \* the file at args.input_file
    outFile0,    \* the file at args.output_file before the run
    outFile,     \* the file at args.output_file
    pc,          \* position of the run
    text,        \* main's text
    client,      \* gemini_tts's client has been constructed
    response,    \* gemini_tts's response
    pcm,         \* the pcm_data passed to save_as_wav
    stdout,      \* the lines printed
    requests,    \* the generate_content calls issued
    inputReads,  \* accesses to the input path (os.path.exists, open)
    outOpens     \* calls of wave.open on the output path

vars == <<argv, args, inputFile, outFile0, outFile, pc, text, client, response,
          pcm, stdout, requests, inputReads, outOpens>>

----------------------------------------------------------------------------
(* Bounds of the model *)

MaxLen == 2

MaxParts == 2

MaxCands == 2

----------------------------------------------------------------------------
(* Python values *)

None == [some |-> FALSE]

Some(v) == [some |-> TRUE, val |-> v]

SeqUpTo(S, n) == UNION {[1..k -> S] : k \in 0..n}

Chars == {"a", " "}

Whitespace == {" "}

Str == SeqUpTo(Chars, MaxLen)

(* values of part.inline_data.data *)
Data == {<<>>, <<1>>, <<2, 1>>}

----------------------------------------------------------------------------
(* Constants of the program *)

GEMINI_TTS_MODEL == "gemini-2.5-flash-preview-tts"

DEFAULT_VOICE == "Zephyr"

DEFAULT_INPUT_FILE == "input.txt"

DEFAULT_OUTPUT_FILE == "output.wav"

WAV_CHANNELS == 1

WAV_RATE == 24000

WAV_SAMPLE_WIDTH == 2

AVAILABLE_VOICES ==
    <<"Zephyr", "Puck", "Erinome", "Kore", "Gacrux", "Autonoe", "Iapetus">>

PreviewLen == 50

----------------------------------------------------------------------------
(* Pure helpers *)

RECURSIVE lstrip(_)
lstrip(s) ==
    IF s # <<>> /\ Head(s) \in Whitespace THEN lstrip(Tail(s)) ELSE s

RECURSIVE rstrip(_)
rstrip(s) ==
    IF s # <<>> /\ s[Len(s)] \in Whitespace
    THEN rstrip(SubSeq(s, 1, Len(s) - 1))
    ELSE s

(* str.strip() *)
strip(s) == rstrip(lstrip(s))

(* truth value of an optional str / bytes / list: None and empty are false *)
Truthy(o) == o.some /\ o.val # <<>>

(* text[:50] followed by '...' when the text is longer *)
Preview(t) ==
    IF Len(t) > PreviewLen
    THEN SubSeq(t, 1, PreviewLen) \o <<".", ".", ".">>
    ELSE t

Msg(kind, arg) == [kind |-> kind, arg |-> arg]

----------------------------------------------------------------------------
(* Command line and environment *)

CliVoices == {"Puck", "Nova"}

Argv == [text : {None} \cup {Some(s) : s \in Str},
         voice : {None} \cup {Some(v) : v \in CliVoices},
         list_voices : BOOLEAN]

(* variant: -v restricted to the known voices, anything else replaced *)
parse_argsChoices(av) ==
    [text |-> av.text,
     input_file |-> DEFAULT_INPUT_FILE,
     output_file |-> DEFAULT_OUTPUT_FILE,
     voice |-> IF av.voice.some
                  /\ \E i \in DOMAIN AVAILABLE_VOICES : AVAILABLE_VOICES[i] = av.voice.val
               THEN av.voice.val
               ELSE DEFAULT_VOICE,
     list_voices |-> av.list_voices]

(* variant: the -l flag is not stored *)
parse_argsNoList(av) ==
    [text |-> av.text,
     input_file |-> DEFAULT_INPUT_FILE,
     output_file |-> DEFAULT_OUTPUT_FILE,
     voice |-> IF av.voice.some THEN av.voice.val ELSE DEFAULT_VOICE,
     list_voices |-> FALSE]

(* argparse: positional text (nargs="?"), -i, -o, -v with defaults, -l flag *)
parse_args(av) ==
    [text |-> av.text,
     input_file |-> DEFAULT_INPUT_FILE,
     output_file |-> DEFAULT_OUTPUT_FILE,
     voice |-> IF av.voice.some THEN av.voice.val ELSE DEFAULT_VOICE,
     list_voices |-> av.list_voices]

(* the file at the input path: absent, present but not readable, or readable *)
InputFiles ==
    {[kind |-> "missing"], [kind |-> "unreadable"]}
        \cup {[kind |-> "file", content |-> s] : s \in Str}

(* the file at the output path before the run *)
OutputFiles == {[kind |-> "absent"], [kind |-> "old"]}

(* a response part is its inline_data: None, or a blob with data bytes      *)
(* (data = None and data = b"" are both false under `not part.data`)        *)
Parts == {None} \cup {Some(d) : d \in Data}

(* a candidate is its content: None, or the list of its parts *)
Candidates == {None} \cup {Some(ps) : ps \in SeqUpTo(Parts, MaxParts)}

(* a response is the list of its candidates *)
Responses == SeqUpTo(Candidates, MaxCands)

(* responses of at most one candidate with at most one part *)
SingleResponses ==
    SeqUpTo({None} \cup {Some(ps) : ps \in SeqUpTo(Parts, 1)}, 1)

----------------------------------------------------------------------------
(* Exceptions *)

(* variant: main has no try block *)
EnclosingTryNoMain(site) ==
    CASE site = "wav"       -> <<"save_as_wav", "gemini_tts">>
      [] site = "request"   -> <<"gemini_tts">>
      [] site = "extract"   -> <<"gemini_tts">>
      [] site = "client"    -> <<>>
      [] site = "read_text" -> <<>>
      [] site = "empty"     -> <<>>

(* the try blocks (all `except Exception`) enclosing each raising site,     *)
(* innermost first                                                          *)
EnclosingTry(site) ==
    CASE site = "wav"       -> <<"save_as_wav", "gemini_tts", "main">>
      [] site = "request"   -> <<"gemini_tts", "main">>
      [] site = "extract"   -> <<"gemini_tts", "main">>
      [] site = "client"    -> <<"main">>
      [] site = "read_text" -> <<"main">>
      [] site = "empty"     -> <<"main">>

(* variant: save_as_wav reports and raises again *)
ReraisesSave(handler) == handler = "save_as_wav"

(* the except blocks only print: none of them raises again *)
Reraises(handler) == FALSE

ErrorKind(handler) ==
    CASE handler = "save_as_wav" -> "err_save"
      [] handler = "gemini_tts"  -> "err_tts"
      [] handler = "main"        -> "err_main"

(* propagate exception exc through the handlers of chain *)
RECURSIVE Unwind(_, _)
Unwind(chain, exc) ==
    IF chain = <<>>
    THEN [out |-> <<>>, escaped |-> TRUE]
    ELSE LET printed == <<Msg(ErrorKind(Head(chain)), exc)>> IN
         IF Reraises(Head(chain))
         THEN LET rest == Unwind(Tail(chain), exc) IN
              [out |-> printed \o rest.out, escaped |-> rest.escaped]
         ELSE [out |-> printed, escaped |-> FALSE]

(* variant: gemini_tts tries the request again after a failure *)
ResumeRetry(handler) == IF handler = "gemini_tts" THEN "request" ELSE "done"

(* where the run continues after the except block of handler: each except *)
(* block is the last statement of its function and nothing follows the     *)
(* calls of save_as_wav and gemini_tts, so main returns                    *)
Resume(handler) == "done"

(* raise exc at site after out has been printed *)
Raise(site, exc, out) ==
    LET u == Unwind(EnclosingTry(site), exc) IN
    /\ stdout' = out \o u.out
    /\ pc' = IF u.escaped THEN "crashed" ELSE Resume(EnclosingTry(site)[Len(u.out)])

----------------------------------------------------------------------------
(* Functions of the program *)

(* variant: the file's text is returned as read *)
read_textNoStrip(source_text, file) ==
    IF Truthy(source_text)
    THEN [raised |-> FALSE, val |-> strip(source_text.val), reads |-> 0]
    ELSE IF file.kind = "missing"
    THEN [raised |-> TRUE, exc |-> "FileNotFoundError", reads |-> 1]
    ELSE IF file.kind = "unreadable"
    THEN [raised |-> TRUE, exc |-> "OSError", reads |-> 2]
    ELSE [raised |-> FALSE, val |-> file.content, reads |-> 2]

(* read_text: result, or exception, and the number of accesses to the file *)
read_text(source_text, file) ==
    IF Truthy(source_text)
    THEN [raised |-> FALSE, val |-> strip(source_text.val), reads |-> 0]
    ELSE IF file.kind = "missing"
    THEN [raised |-> TRUE, exc |-> "FileNotFoundError", reads |-> 1]
    ELSE IF file.kind = "unreadable"
    THEN [raised |-> TRUE, exc |-> "OSError", reads |-> 2]
    ELSE [raised |-> FALSE, val |-> strip(file.content), reads |-> 2]

(* the generate_content call of gemini_tts *)
GenerateContentRequest(t, voice) ==
    [model |-> GEMINI_TTS_MODEL,
     contents |-> t,
     response_modalities |-> <<"AUDIO">>,
     voice_name |-> voice]

(* variant: the data of the part is not checked *)
ExtractPartNoCheck(r) ==
    IF r = <<>>
    THEN [raised |-> TRUE, exc |-> "ValueError"]
    ELSE IF ~r[1].some
    THEN [raised |-> TRUE, exc |-> "AttributeError"]
    ELSE IF r[1].val = <<>>
    THEN [raised |-> TRUE, exc |-> "IndexError"]
    ELSE IF ~r[1].val[1].some
    THEN [raised |-> TRUE, exc |-> "ValueError"]
    ELSE [raised |-> FALSE, val |-> r[1].val[1].val]

(* response.candidates[0].content.parts[0].inline_data if response.candidates *)
(* else None, then the check `not part or not part.data`                      *)
ExtractPart(r) ==
    IF r = <<>>
    THEN [raised |-> TRUE, exc |-> "ValueError"]
    ELSE IF ~r[1].some
    THEN [raised |-> TRUE, exc |-> "AttributeError"]
    ELSE IF r[1].val = <<>>
    THEN [raised |-> TRUE, exc |-> "IndexError"]
    ELSE IF ~r[1].val[1].some \/ r[1].val[1].val = <<>>
    THEN [raised |-> TRUE, exc |-> "ValueError"]
    ELSE [raised |-> FALSE, val |-> r[1].val[1].val]

(* variant: channel count and sample width exchanged *)
WavFileSwapped(pcm_data) ==
    [kind |-> "wav",
     nchannels |-> WAV_SAMPLE_WIDTH,
     sampwidth |-> WAV_CHANNELS,
     framerate |-> WAV_RATE,
     frames |-> pcm_data]

(* the file save_as_wav produces from pcm_data *)
WavFile(pcm_data) ==
    [kind |-> "wav",
     nchannels |-> WAV_CHANNELS,
     sampwidth |-> WAV_SAMPLE_WIDTH,
     framerate |-> WAV_RATE,
     frames |-> pcm_data]

----------------------------------------------------------------------------
(* State machine *)

InitWith(argvs, files) ==
    /\ argv \in argvs
    /\ args = parse_args(argv)
    /\ inputFile \in files
    /\ outFile0 \in OutputFiles
    /\ outFile = outFile0
    /\ pc = "main"
    /\ text = None
    /\ client = FALSE
    /\ response = None
    /\ pcm = None
    /\ stdout = <<>>
    /\ requests = <<>>
    /\ inputReads = 0
    /\ outOpens = 0

(* main, --list-voices branch *)
ListVoices ==
    /\ pc = "main"
    /\ args.list_voices
    /\ stdout' = <<Msg("voices_header", <<>>)>>
                    \o [i \in 1..Len(AVAILABLE_VOICES) |->
                            Msg("voice_name", AVAILABLE_VOICES[i])]
    /\ pc' = "done"
    /\ UNCHANGED <<argv, args, inputFile, outFile0, outFile, text, client,
                   response, pcm, requests, inputReads, outOpens>>

(* main: read_text, the empty check and the two preview lines *)
ResolveText ==
    /\ pc = "main"
    /\ ~args.list_voices
    /\ LET r == read_text(args.text, inputFile) IN
       /\ inputReads' = inputReads + r.reads
       /\ IF r.raised
          THEN Raise("read_text", r.exc, stdout) /\ UNCHANGED text
          ELSE IF r.val = <<>>
          THEN Raise("empty", "ValueError", stdout) /\ UNCHANGED text
          ELSE /\ text' = Some(r.val)
               /\ stdout' = stdout \o <<Msg("preview", Preview(r.val)),
                                        Msg("voice", args.voice)>>
               /\ pc' = "gemini_tts"
    /\ UNCHANGED <<argv, args, inputFile, outFile0, outFile, client, response,
                   pcm, requests, outOpens>>

(* gemini_tts: the progress line and genai.Client() *)
CreateClient ==
    /\ pc = "gemini_tts"
    /\ \E ok \in BOOLEAN :
         LET out == Append(stdout, Msg("generating", <<>>)) IN
         IF ok
         THEN stdout' = out /\ pc' = "request" /\ client' = TRUE
         ELSE Raise("client", "ClientError", out) /\ UNCHANGED client
    /\ UNCHANGED <<argv, args, inputFile, outFile0, outFile, text, response,
                   pcm, requests, inputReads, outOpens>>

(* gemini_tts: client.models.generate_content returns or raises *)
GenerateContent(responses) ==
    /\ pc = "request"
    /\ requests' = Append(requests, GenerateContentRequest(text.val, args.voice))
    /\ \/ /\ Raise("request", "APIError", stdout)
          /\ UNCHANGED response
       \/ \E r \in responses :
            /\ response' = Some(r)
            /\ pc' = "extract"
            /\ UNCHANGED stdout
    /\ UNCHANGED <<argv, args, inputFile, outFile0, outFile, text, client, pcm,
                   inputReads, outOpens>>

(* gemini_tts: pick the part and check it *)
Extract ==
    /\ pc = "extract"
    /\ LET p == ExtractPart(response.val) IN
       IF p.raised
       THEN Raise("extract", p.exc, stdout) /\ UNCHANGED pcm
       ELSE pcm' = Some(p.val) /\ pc' = "save" /\ UNCHANGED stdout
    /\ UNCHANGED <<argv, args, inputFile, outFile0, outFile, text, client,
                   response, requests, inputReads, outOpens>>

(* save_as_wav: wave.open may fail, writing or closing may fail, or the     *)
(* file is written and the success line printed                             *)
SaveAsWav ==
    /\ pc = "save"
    /\ outOpens' = outOpens + 1
    /\ \/ /\ Raise("wav", "OpenError", stdout)
          /\ UNCHANGED outFile
       \/ /\ Raise("wav", "WriteError", stdout)
          /\ outFile' = [kind |-> "partial"]
       \/ /\ outFile' = WavFile(pcm.val)
          /\ stdout' = Append(stdout, Msg("saved", args.output_file))
          /\ pc' = "done"
    /\ UNCHANGED <<argv, args, inputFile, outFile0, text, client, response, pcm,
                   requests, inputReads>>

(* every command line and input file, responses of the single-part shape *)
Init == InitWith(Argv, InputFiles)

Next ==
    \/ ListVoices
    \/ ResolveText
    \/ CreateClient
    \/ GenerateContent(SingleResponses)
    \/ Extract
    \/ SaveAsWav

Spec == Init /\ [][Next]_vars

(* the default voice, a one-letter text or none (and no input file), every *)
(* response up to MaxCands candidates of MaxParts parts each               *)
ApiArgv ==
    [text : {None, Some(<<"a">>)}, voice : {None}, list_voices : BOOLEAN]

InitApi == InitWith(ApiArgv, {[kind |-> "missing"]})

NextApi ==
    \/ ListVoices
    \/ ResolveText
    \/ CreateClient
    \/ GenerateContent(Responses)
    \/ Extract
    \/ SaveAsWav

SpecApi == InitApi /\ [][NextApi]_vars

----------------------------------------------------------------------------
(* Properties *)

Lines(kinds) == {i \in DOMAIN stdout : stdout[i].kind \in kinds}

Errors == Cardinality(Lines({"err_save", "err_tts", "err_main"}))

Successes == Cardinality(Lines({"saved"}))

(* the argument, resp. the input file, yields a non-empty text once trimmed *)
ArgYields == argv.text.some /\ strip(argv.text.val) # <<>>

FileYields == inputFile.kind = "file" /\ strip(inputFile.content) # <<>>

(* the voice selected on the command line *)
SelectedVoice == IF argv.voice.some THEN argv.voice.val ELSE "Zephyr"

(* a run without --list-voices that ended with some stage having failed *)
StageFailed ==
    /\ pc = "done"
    /\ ~argv.list_voices
    /\ \/ ~text.some
       \/ ~client
       \/ ~response.some
       \/ ~pcm.some
       \/ outFile.kind # "wav"

(* C1: without --list-voices, no exception escapes main at any stage, and a *)
(* run in which a stage failed (text resolution, client construction, the   *)
(* request, the payload extraction, the WAV write) has printed an error     *)
C1_NoExceptionEscapes ==
    /\ pc # "crashed"
    /\ StageFailed => Errors >= 1

(* C1 witness: genai.Client() failed, which only main's try block catches *)
C1_Witness ==
    /\ pc = "done"
    /\ text.some
    /\ ~client
    /\ Errors = 1

(* C2: when neither the argument nor the input file yields non-empty text   *)
(* after trimming, the run ends with an error, no request is ever issued    *)
(* and the output file is never opened                                      *)
C2_NoTextNoRequest ==
    (~argv.list_voices /\ ~ArgYields /\ ~FileYields) =>
        /\ pc \in {"main", "done"}
        /\ requests = <<>>
        /\ outOpens = 0
        /\ outFile = outFile0
        /\ pc = "done" => Errors = 1 /\ Successes = 0

(* C2 witness: no argument and an input file holding only whitespace *)
C2_Witness ==
    /\ pc = "done"
    /\ ~argv.list_voices
    /\ ~argv.text.some
    /\ inputFile.kind = "file"
    /\ inputFile.content = <<" ">>

(* C3: generate_content is issued at most once whatever happens later, and  *)
(* exactly once in a finished run whose text was non-empty and whose client *)
(* was constructed                                                          *)
C3_OneRequest ==
    /\ Len(requests) <= 1
    /\ (pc = "done" /\ text.some /\ client) => Len(requests) = 1

(* C3 witness: the request raised and the run ended without another one *)
C3_Witness ==
    /\ pc = "done"
    /\ client
    /\ ~response.some
    /\ Len(requests) = 1

(* C4: on success the output file is a wave file of 1 channel, 2 bytes per  *)
(* sample, 24000 Hz, whose frames are the bytes the API returned            *)
C4_WavFormat ==
    Successes > 0 =>
        /\ response.some
        /\ outFile = [kind |-> "wav",
                      nchannels |-> 1,
                      sampwidth |-> 2,
                      framerate |-> 24000,
                      frames |-> response.val[1].val[1].val]

(* C4 witness: a two-byte payload saved under a voice given with -v *)
C4_Witness ==
    /\ pc = "done"
    /\ Successes = 1
    /\ argv.voice.some
    /\ outFile.kind = "wav"
    /\ outFile.frames = <<2, 1>>

(* C5: every request carries the voice selected on the command line, or    *)
(* Zephyr when none was, and a voice is never a reason not to issue it      *)
C5_VoicePassedThrough ==
    /\ \A i \in DOMAIN requests : requests[i].voice_name = SelectedVoice
    /\ (pc = "done" /\ text.some /\ client) => requests # <<>>

(* C5 witness: a request issued with a voice outside AVAILABLE_VOICES *)
C5_Witness ==
    /\ requests # <<>>
    /\ requests[1].voice_name = "Nova"
    /\ \A i \in DOMAIN AVAILABLE_VOICES : AVAILABLE_VOICES[i] # "Nova"

(* C6: the audio saved is the first non-empty inline payload among the      *)
(* parts of the first candidate; with no candidate or no such payload an    *)
(* error is reported and the output file is not written                     *)
C6_FirstInlinePayload ==
    (pc = "done" /\ response.some) =>
        LET r == response.val
            audio == IF r = <<>> \/ ~r[1].some
                     THEN <<>>
                     ELSE SelectSeq(r[1].val, LAMBDA p : p.some /\ p.val # <<>>)
        IN  IF audio # <<>>
            THEN /\ pcm = Some(audio[1].val)
                 /\ outOpens = 1
                 /\ Successes = 1 => outFile.frames = audio[1].val
            ELSE /\ Errors = 1
                 /\ outOpens = 0
                 /\ outFile = outFile0

(* C7: a non-empty trimmed argument is the text and the input file is not   *)
(* accessed; otherwise (argument absent, empty or whitespace only) the text *)
(* is the trimmed content of the input file                                 *)
C7_ArgumentThenFile ==
    (pc # "main" /\ ~argv.list_voices) =>
        IF ArgYields
        THEN text = Some(strip(argv.text.val)) /\ inputReads = 0
        ELSE /\ inputReads > 0
             /\ FileYields => text = Some(strip(inputFile.content))

(* C8: a run without --list-voices ends with exactly one outcome line, the  *)
(* success line or one error line; the success line only with the file      *)
(* written; a failure in save_as_wav is reported by save_as_wav alone       *)
C8_OneOutcome ==
    /\ Errors + Successes <= 1
    /\ (pc = "done" /\ ~argv.list_voices) => Errors + Successes = 1
    /\ Successes = 1 => outOpens = 1 /\ outFile.kind = "wav"
    /\ (pc = "done" /\ outOpens = 1 /\ outFile.kind # "wav") =>
           Cardinality(Lines({"err_save"})) = 1 /\ Errors = 1

(* C8 witness: writing failed after the file was opened *)
C8_Witness ==
    /\ pc = "done"
    /\ outFile.kind = "partial"
    /\ Errors = 1

(* C9: the text is resolved before the request and the output file is       *)
(* opened only after a response whose first part has non-empty data; in     *)
(* every other run the file at the output path is as it was                 *)
C9_OutputUntouched ==
    /\ requests # <<>> => text.some
    /\ outOpens > 0 =>
           /\ Len(requests) = 1
           /\ response.some
           /\ pcm.some
           /\ pcm.val # <<>>
    /\ outOpens = 0 => outFile = outFile0

(* C9 witness: a response without usable audio, an existing output file *)
C9_Witness ==
    /\ pc = "done"
    /\ response.some
    /\ outOpens = 0
    /\ outFile0.kind = "old"
    /\ outFile = outFile0

(* C10: with --list-voices the run prints the voice names and returns: it   *)
(* never reads the input file, issues no request and leaves the output file *)
C10_ListVoicesOnly ==
    argv.list_voices =>
        /\ pc \in {"main", "done"}
        /\ inputReads = 0
        /\ requests = <<>>
        /\ outOpens = 0
        /\ outFile = outFile0
        /\ pc = "done" =>
               /\ Len(stdout) = Len(AVAILABLE_VOICES) + 1
               /\ \A i \in DOMAIN AVAILABLE_VOICES :
                      stdout[i + 1] = Msg("voice_name", AVAILABLE_VOICES[i])

(* C10 witness: --list-voices given with a text, a voice and an input file *)
C10_Witness ==
    /\ pc = "done"
    /\ argv.list_voices
    /\ argv.text.some
    /\ argv.voice.some
    /\ inputFile.kind = "file"

====
